---------------------------- MODULE Spec2Model ----------------------------
(* A model of three host plugins of the pipeline:                          *)
(*   openpype/hosts/fusion/api/lib.py       (frame range, resolution,      *)
(*       switch_item, maintained_selection, get_frame_path)                *)
(*   config/plugins/maya/publish/validate_instance_has_members.py          *)
(*   pype/plugins/blender/create/create_model.py                           *)
(* Each unit is invoked by its host on its own, so each has its own        *)
(* specification (SpecPath, SpecSwitch, SpecComp, SpecSelection,           *)
(* SpecValidate, SpecCreate) over its own variables; the variables of the  *)
(* other units stay at their idle values.                                  *)
EXTENDS Integers, Sequences, FiniteSets

VARIABLES
    \* get_frame_path
    path,          \* the argument, a sequence of one-character strings
    frameResult,   \* <<>> before the call, <<[filename, padding, ext]>> after
    \* switch_item
    db,            \* the lookup service's store: a prefix-closed set of paths
    container,     \* [representation |-> id of the representation it points to]
    switchArgs,    \* [asset_name, subset_name, representation_name] of the last call
    switchCalls,   \* the lookup-service / pipeline calls of the last call, in order
    switchOutcome, \* "idle" | "ValueError" | "TypeError" | "AssertionError" | "returned"
    containerBefore, \* the container as it was when the last call started
    \* update_frame_range, set_asset_framerange, set_asset_resolution
    assetDoc,      \* data of the current project asset
    compAttrs,     \* comp -> attribute map of the composition
    compPrefs,     \* preferences of the current composition
    compLocked,    \* comp -> whether it is locked
    compUndoOpen,  \* comp -> whether an undo chunk is open
    frameCall,     \* the last call: [op, start, end, comp, set_render_range, ...]
    hostEvents,    \* the host calls of the last call, in order
    frameRaised,   \* whether the last call raised
    \* maintained_selection
    selection,     \* the selected tools of the composition
    selAtEntry,    \* the selection when the scope was entered
    selInBody,     \* the selection the body left behind
    selBodyRaised, \* whether the body raised
    selOutcome,    \* "idle" | "returned" | "raised"
    \* ValidateInstanceHasMembers
    instance,      \* [data |-> [name, setMembers, family]]
    instanceBefore,
    invalid,       \* the list get_invalid returned
    validateOp,    \* "idle" | "get_invalid" | "process"
    validateRaised,\* <<>> or <<the list the RuntimeError carries>>
    \* CreateModel
    collections,   \* bpy.data.collections: a sequence of collection records
    sceneChildren, \* indices of the collections linked under the scene's root
    blenderSelection, \* the selected objects
    sessionTask,   \* api.Session.get('AVALON_TASK')
    creator,       \* the Creator of the last call: [data, options], data after process
    createEvents,  \* the calls of the last process, in order
    returned       \* <<>> or <<index of the collection process returned>>

pathVars   == <<path, frameResult>>
switchVars == <<db, container, switchArgs, switchCalls, switchOutcome, containerBefore>>
compVars   == <<assetDoc, compAttrs, compPrefs, compLocked, compUndoOpen,
                frameCall, hostEvents, frameRaised>>
selVars    == <<selection, selAtEntry, selInBody, selBodyRaised, selOutcome>>
valVars    == <<instance, instanceBefore, invalid, validateOp, validateRaised>>
createVars == <<collections, sceneChildren, blenderSelection, sessionTask,
                creator, createEvents, returned>>
vars == <<pathVars, switchVars, compVars, selVars, valVars, createVars>>

\* Python's None where a name (a string) is expected.
None == "None"

Last(s) == s[Len(s)]

-----------------------------------------------------------------------------
(* Idle values: a unit that is not running.                                *)

IdlePath == path = <<>> /\ frameResult = <<>>

IdleSwitch ==
    /\ db = {}
    /\ container = [representation |-> None]
    /\ switchArgs = <<>>
    /\ switchCalls = <<>>
    /\ switchOutcome = "idle"
    /\ containerBefore = [representation |-> None]

IdleComp ==
    /\ assetDoc = <<>>
    /\ compAttrs = <<>>
    /\ compPrefs = <<>>
    /\ compLocked = <<>>
    /\ compUndoOpen = <<>>
    /\ frameCall = <<>>
    /\ hostEvents = <<>>
    /\ frameRaised = FALSE

IdleSelection ==
    /\ selection = {}
    /\ selAtEntry = {}
    /\ selInBody = {}
    /\ selBodyRaised = FALSE
    /\ selOutcome = "idle"

IdleValidate ==
    /\ instance = <<>>
    /\ instanceBefore = <<>>
    /\ invalid = <<>>
    /\ validateOp = "idle"
    /\ validateRaised = <<>>

IdleCreate ==
    /\ collections = <<>>
    /\ sceneChildren = {}
    /\ blenderSelection = {}
    /\ sessionTask = None
    /\ creator = <<>>
    /\ createEvents = <<>>
    /\ returned = <<>>

-----------------------------------------------------------------------------
(* get_frame_path                                                          *)

\* The longest generated path; the documented examples are added to them.
MaxPathLen == 3

NL == "\n"
Digits == {"0", "1", "2", "3", "4", "5", "6", "7", "8", "9"}
PathChars == {"a", ".", "/", "0", "7", NL}

RECURSIVE StringsUpTo(_)
StringsUpTo(n) ==
    IF n = 0 THEN {<<>>}
    ELSE LET shorter == StringsUpTo(n - 1)
         IN  shorter \cup {Append(s, c) : s \in {t \in shorter : Len(t) = n - 1},
                                          c \in PathChars}

DocExample1 == <<"C", ":", "/", "t", "e", "s", "t", ".", "e", "x", "r">>
DocExample2 == <<"f", "i", "l", "e", "n", "a", "m", "e", ".", "0", "0", ".", "t", "i", "f">>
DocExample3 == <<"f", "o", "o", "b", "a", "r", "3", "5", ".", "t", "i", "f">>

Paths == StringsUpTo(MaxPathLen) \cup {DocExample1, DocExample2, DocExample3}

\* s.rfind(c) + 1: the last position of c in s, 0 when there is none.
RFind(s, c) ==
    LET hits == {i \in 1..Len(s) : s[i] = c}
    IN  IF hits = {} THEN 0 ELSE CHOOSE i \in hits : \A j \in hits : j <= i

\* os.path.splitext (posixpath): the extension starts at the last dot of the
\* last path component, unless only dots precede it in that component.
SplitExt(p) ==
    LET sepIndex == RFind(p, "/")
        dotIndex == RFind(p, ".")
    IN  IF /\ dotIndex > sepIndex
           /\ \E k \in (sepIndex + 1)..(dotIndex - 1) : p[k] # "."
        THEN <<SubSeq(p, 1, dotIndex - 1), SubSeq(p, dotIndex, Len(p))>>
        ELSE <<p, <<>>>>

\* Whether '$' matches at position i (between s[i-1] and s[i]): at the end of
\* the string, or just before a newline that ends it.
DollarAt(s, i) ==
    \/ i = Len(s) + 1
    \/ i = Len(s) /\ s[i] = NL

\* re.match('.*?([0-9]+)$', s): <<>> when there is no match, else <<group 1>>.
\* '.*?' takes as few characters as a match allows, none of them a newline;
\* '[0-9]+' then takes every digit that follows, and '$' must match there
\* (giving digits back leaves a digit next, where '$' cannot match).
MatchTrailingNumber(s) ==
    LET RunEnd(i) ==
            CHOOSE e \in i..Len(s) :
                /\ \A k \in i..e : s[k] \in Digits
                /\ e = Len(s) \/ s[e + 1] \notin Digits
        starts == {i \in 1..Len(s) :
                      /\ \A k \in 1..(i - 1) : s[k] # NL
                      /\ s[i] \in Digits
                      /\ DollarAt(s, RunEnd(i) + 1)}
    IN  IF starts = {} THEN <<>>
        ELSE LET first == CHOOSE i \in starts : \A j \in starts : i <= j
             IN  <<SubSeq(s, first, RunEnd(first))>>

DefaultPadding == 4

\* get_frame_path(path): [filename, padding, ext].
get_frame_path(p) ==
    LET split == SplitExt(p)
        filename == split[1]
        ext == split[2]
        match == MatchTrailingNumber(filename)
    IN  IF match # <<>>
        THEN LET padding == Len(match[1])
             IN  [filename |-> SubSeq(filename, 1, Len(filename) - padding),
                  padding |-> padding,
                  ext |-> ext]
        ELSE [filename |-> filename, padding |-> DefaultPadding, ext |-> ext]

InitPath ==
    /\ path \in Paths
    /\ frameResult = <<>>
    /\ IdleSwitch /\ IdleComp /\ IdleSelection /\ IdleValidate /\ IdleCreate

GetFramePath ==
    /\ frameResult = <<>>
    /\ frameResult' = <<get_frame_path(path)>>
    /\ UNCHANGED <<path, switchVars, compVars, selVars, valVars, createVars>>

NextPath == GetFramePath

SpecPath == InitPath /\ [][NextPath]_vars

\* What C8 says of a path: the trailing digit run of the extensionless path.
TrailingDigits(s) ==
    LET starts == {i \in 1..(Len(s) + 1) : \A k \in i..Len(s) : s[k] \in Digits}
        first == CHOOSE i \in starts : \A j \in starts : i <= j
    IN  SubSeq(s, first, Len(s))

ClaimedFramePath(p) ==
    LET noext == SplitExt(p)[1]
        run == TrailingDigits(noext)
    IN  IF run # <<>>
        THEN [filename |-> SubSeq(noext, 1, Len(noext) - Len(run)),
              padding |-> Len(run),
              ext |-> SplitExt(p)[2]]
        ELSE [filename |-> noext, padding |-> 4, ext |-> SplitExt(p)[2]]

\* C8: for every path, get_frame_path returns (stem, padding, extension) with
\* padding the length of the maximal trailing digit run of the extensionless
\* path and stem that path without the run, or padding 4 and the stem
\* unchanged when it ends in no digit; stem, removed digits and extension
\* give the path back; the three documented examples hold.
C8_FramePathAsClaimed ==
    frameResult # <<>> =>
        LET r == frameResult[1]
            run == TrailingDigits(SplitExt(path)[1])
        IN  /\ r = ClaimedFramePath(path)
            /\ r.filename \o run \o r.ext = path
            /\ path = DocExample1 =>
                   r = [filename |-> <<"C", ":", "/", "t", "e", "s", "t">>,
                        padding |-> 4, ext |-> <<".", "e", "x", "r">>]
            /\ path = DocExample2 =>
                   r = [filename |-> <<"f", "i", "l", "e", "n", "a", "m", "e", ".">>,
                        padding |-> 2, ext |-> <<".", "t", "i", "f">>]
            /\ path = DocExample3 =>
                   r = [filename |-> <<"f", "o", "o", "b", "a", "r">>,
                        padding |-> 2, ext |-> <<".", "t", "i", "f">>]

-----------------------------------------------------------------------------
(* The lookup service and switch_item                                       *)

AssetNames == {"a1", "a2"}
SubsetNames == {"s1"}
RepreNames == {"r1", "r2"}

\* The store holds documents by their path from the project: <<a>> an asset,
\* <<a, s>> a subset of it, <<a, s, "v">> the last version of that subset,
\* <<a, s, "v", r>> a representation of that version. A document's path is
\* its _id.
AllDocs ==
    {<<a>> : a \in AssetNames}
        \cup {<<a, s>> : a \in AssetNames, s \in SubsetNames}
        \cup {<<a, s, "v">> : a \in AssetNames, s \in SubsetNames}
        \cup {<<a, s, "v", r>> : a \in AssetNames, s \in SubsetNames, r \in RepreNames}

\* Every document has its parent.
Stores ==
    {store \in SUBSET AllDocs :
        \A d \in store : Len(d) > 1 => SubSeq(d, 1, Len(d) - 1) \in store}

\* What a container can point to: a representation of a subset of the store
\* (of its last version or an older one), one whose parents are gone, or an
\* id the store no longer knows.
GoneId == <<"gone">>
OrphanIds == {<<"orphan", r>> : r \in RepreNames}
LinkedIds(store) ==
    {<<a, s, "v", r>> : a \in AssetNames, s \in SubsetNames, r \in RepreNames}
        \cap {id \in Seq(AssetNames \cup SubsetNames \cup RepreNames \cup {"v"}) :
                 Len(id) = 4 /\ <<id[1], id[2]>> \in store}

\* Arguments: omitted (None), empty, or a name.
AssetArgs == {None, ""} \cup AssetNames
SubsetArgs == {None, "", "s1", "s2"}
RepreArgs == {None, ""} \cup RepreNames

\* A lookup result is <<>> (nothing) or <<document>>.
get_asset_by_name(store, asset_name) ==
    IF <<asset_name>> \in store THEN <<[_id |-> <<asset_name>>]>> ELSE <<>>

get_subset_by_name(store, subset_name, asset_id) ==
    IF Append(asset_id, subset_name) \in store
    THEN <<[_id |-> Append(asset_id, subset_name)]>> ELSE <<>>

get_last_version_by_subset_id(store, subset_id) ==
    IF Append(subset_id, "v") \in store
    THEN <<[_id |-> Append(subset_id, "v")]>> ELSE <<>>

get_representation_by_name(store, representation_name, version_id) ==
    IF Append(version_id, representation_name) \in store
    THEN <<[_id |-> Append(version_id, representation_name),
            name |-> representation_name]>>
    ELSE <<>>

get_representation_by_id(store, repre_id) ==
    IF repre_id = GoneId THEN <<>>
    ELSE <<[_id |-> repre_id, name |-> Last(repre_id)]>>

\* <<>> or <<[version, subset, asset]>>, the parents of a representation.
get_representation_parents(store, representation) ==
    IF representation = <<>> THEN <<>>
    ELSE LET id == representation[1]._id
         IN  IF Len(id) = 4 /\ <<id[1], id[2]>> \in store
             THEN <<[version |-> [_id |-> SubSeq(id, 1, 3)],
                     subset |-> [_id |-> SubSeq(id, 1, 2), name |-> id[2]],
                     asset |-> [_id |-> SubSeq(id, 1, 1), name |-> id[1]]]>>
             ELSE <<>>

\* switch_container(container, representation): the container points to it.
switch_container(cont, representation) ==
    [cont EXCEPT !.representation = representation._id]

\* One call of the lookup service or the pipeline, as the log keeps it.
Call(fn, name, id, result) ==
    [fn |-> fn, name |-> name, id |-> id, found |-> result # <<>>]

\* 'not x' for a name.
Falsy(x) == x = None \/ x = ""

\* The zero-names check testing 'is None' instead of 'not x'.
NoChangeProvidedIsNone(an, sn, rn) == an = None /\ sn = None /\ rn = None

\* Line 135: all(not x for x in [asset_name, subset_name, representation_name]).
NoChangeProvided(an, sn, rn) == Falsy(an) /\ Falsy(sn) /\ Falsy(rn)

\* Line 141: any(not x for x in [asset_name, subset_name, representation_name]).
AnyNotProvided(an, sn, rn) == Falsy(an) \/ Falsy(sn) \/ Falsy(rn)

\* Lines 142-157: the names of the container's current representation stand
\* in for the names that are None. Subscripting None raises a TypeError.
FillNames(cont, store, an, sn, rn) ==
    LET repre_id == cont.representation
        representation == get_representation_by_id(store, repre_id)
        parents == get_representation_parents(store, representation)
        calls == <<Call("get_representation_by_id", None, repre_id, representation),
                   Call("get_representation_parents", None, repre_id, parents)>>
    IN  IF \/ (an = None \/ sn = None) /\ parents = <<>>
           \/ rn = None /\ representation = <<>>
        THEN [outcome |-> "TypeError", calls |-> calls, names |-> <<an, sn, rn>>]
        ELSE [outcome |-> "ok", calls |-> calls,
              names |-> <<IF an = None THEN parents[1].asset.name ELSE an,
                          IF sn = None THEN parents[1].subset.name ELSE sn,
                          IF rn = None THEN representation[1].name ELSE rn>>]

\* A chain that goes on to the subset lookup when the asset was not found.
ResolveChainNoAssetAssert(store, an, sn, rn) ==
    LET asset == get_asset_by_name(store, an)
        c1 == <<Call("get_asset_by_name", an, <<>>, asset)>>
        asset_id == IF asset = <<>> THEN <<an>> ELSE asset[1]._id
        subset == get_subset_by_name(store, sn, asset_id)
        c2 == Append(c1, Call("get_subset_by_name", sn, asset_id, subset))
    IN  IF asset = <<>> \/ subset = <<>>
        THEN [outcome |-> "AssertionError", calls |-> c2, representation |-> <<>>]
        ELSE
    LET version == get_last_version_by_subset_id(store, subset[1]._id)
        c3 == Append(c2, Call("get_last_version_by_subset_id", None,
                                  subset[1]._id, version))
    IN  IF version = <<>>
        THEN [outcome |-> "AssertionError", calls |-> c3, representation |-> <<>>]
        ELSE
    LET representation == get_representation_by_name(store, rn, version[1]._id)
        c4 == Append(c3, Call("get_representation_by_name", rn,
                                  version[1]._id, representation))
    IN  IF representation = <<>>
        THEN [outcome |-> "AssertionError", calls |-> c4, representation |-> <<>>]
        ELSE [outcome |-> "ok", calls |-> c4, representation |-> representation]

\* Lines 160-181: asset, subset, last version, representation, each asserted.
ResolveChain(store, an, sn, rn) ==
    LET asset == get_asset_by_name(store, an)
        c1 == <<Call("get_asset_by_name", an, <<>>, asset)>>
    IN  IF asset = <<>>
        THEN [outcome |-> "AssertionError", calls |-> c1, representation |-> <<>>]
        ELSE
    LET subset == get_subset_by_name(store, sn, asset[1]._id)
        c2 == Append(c1, Call("get_subset_by_name", sn, asset[1]._id, subset))
    IN  IF subset = <<>>
        THEN [outcome |-> "AssertionError", calls |-> c2, representation |-> <<>>]
        ELSE
    LET version == get_last_version_by_subset_id(store, subset[1]._id)
        c3 == Append(c2, Call("get_last_version_by_subset_id", None,
                                  subset[1]._id, version))
    IN  IF version = <<>>
        THEN [outcome |-> "AssertionError", calls |-> c3, representation |-> <<>>]
        ELSE
    LET representation == get_representation_by_name(store, rn, version[1]._id)
        c4 == Append(c3, Call("get_representation_by_name", rn,
                                  version[1]._id, representation))
    IN  IF representation = <<>>
        THEN [outcome |-> "AssertionError", calls |-> c4, representation |-> <<>>]
        ELSE [outcome |-> "ok", calls |-> c4, representation |-> representation]

\* switch_item(container, asset_name, subset_name, representation_name):
\* [outcome, calls, container].
switch_item(cont, store, an, sn, rn) ==
    IF NoChangeProvided(an, sn, rn)
    THEN [outcome |-> "ValueError", calls |-> <<>>, container |-> cont]
    ELSE
    LET filled == IF AnyNotProvided(an, sn, rn)
                  THEN FillNames(cont, store, an, sn, rn)
                  ELSE [outcome |-> "ok", calls |-> <<>>, names |-> <<an, sn, rn>>]
    IN  IF filled.outcome # "ok"
        THEN [outcome |-> filled.outcome, calls |-> filled.calls, container |-> cont]
        ELSE
    LET found == ResolveChain(store, filled.names[1], filled.names[2], filled.names[3])
        calls == filled.calls \o found.calls
    IN  IF found.outcome # "ok"
        THEN [outcome |-> found.outcome, calls |-> calls, container |-> cont]
        ELSE [outcome |-> "returned",
              calls |-> Append(calls, Call("switch_container",
                                           found.representation[1].name,
                                           found.representation[1]._id,
                                           found.representation)),
              container |-> switch_container(cont, found.representation[1])]

InitSwitch ==
    /\ db \in Stores
    /\ container \in [representation : {GoneId} \cup OrphanIds \cup LinkedIds(db)]
    /\ switchArgs = <<>>
    /\ switchCalls = <<>>
    /\ switchOutcome = "idle"
    /\ containerBefore = container
    /\ IdlePath /\ IdleComp /\ IdleSelection /\ IdleValidate /\ IdleCreate

SwitchItem(an, sn, rn) ==
    LET r == switch_item(container, db, an, sn, rn)
    IN  /\ switchArgs' = <<an, sn, rn>>
        /\ containerBefore' = container
        /\ switchCalls' = r.calls
        /\ switchOutcome' = r.outcome
        /\ container' = r.container
        /\ UNCHANGED <<db, pathVars, compVars, selVars, valVars, createVars>>

NextSwitch ==
    \E an \in AssetArgs, sn \in SubsetArgs, rn \in RepreArgs : SwitchItem(an, sn, rn)

SpecSwitch == InitSwitch /\ [][NextSwitch]_vars

\* The four lookups of the re-resolution, in the order the chain makes them.
ChainOrder ==
    <<"get_asset_by_name", "get_subset_by_name",
      "get_last_version_by_subset_id", "get_representation_by_name">>

\* The re-resolution lookups among the calls of the last switch_item.
ChainCalls ==
    SelectSeq(switchCalls,
              LAMBDA c : c.fn \in {ChainOrder[i] : i \in 1..Len(ChainOrder)})

\* C1: switch_container is called only after the four lookups (asset by name,
\* subset by name under that asset, last version of that subset,
\* representation by name under that version, in this order) each returned
\* something; a lookup that returns nothing is the last call made, the
\* operation aborts there, switch_container is not called and the container
\* is as it was.
C1_SwitchOnlyAfterFullChain ==
    /\ Len(ChainCalls) <= Len(ChainOrder)
    /\ \A i \in 1..Len(ChainCalls) : ChainCalls[i].fn = ChainOrder[i]
    /\ Len(ChainCalls) >= 2 => ChainCalls[2].id = <<ChainCalls[1].name>>
    /\ Len(ChainCalls) >= 3 =>
           ChainCalls[3].id = Append(ChainCalls[2].id, ChainCalls[2].name)
    /\ Len(ChainCalls) >= 4 => ChainCalls[4].id = Append(ChainCalls[3].id, "v")
    /\ \A i \in 1..Len(switchCalls) :
           switchCalls[i].fn = "switch_container" =>
               /\ i = Len(switchCalls)
               /\ Len(ChainCalls) = Len(ChainOrder)
               /\ \A j \in 1..Len(ChainCalls) : ChainCalls[j].found
               /\ switchCalls[i].id = Append(ChainCalls[4].id, ChainCalls[4].name)
    /\ \A i \in 1..Len(switchCalls) :
           (/\ switchCalls[i].fn \in {ChainOrder[k] : k \in 1..Len(ChainOrder)}
            /\ ~switchCalls[i].found) =>
               /\ i = Len(switchCalls)
               /\ switchOutcome = "AssertionError"
               /\ container = containerBefore
    /\ container # containerBefore =>
           /\ switchCalls # <<>>
           /\ Last(switchCalls).fn = "switch_container"
           /\ container.representation = Last(switchCalls).id

\* C1's case: the four lookups succeeded and the container was repointed.
C1_Witness ==
    /\ switchOutcome = "returned"
    /\ Len(ChainCalls) = 4
    /\ container # containerBefore

\* C1's other case: the chain stopped at the version lookup.
C1_AbortWitness ==
    /\ switchOutcome = "AssertionError"
    /\ Len(ChainCalls) = 3
    /\ ~ChainCalls[3].found

\* C2: with all three names omitted (None or empty) switch_item raises the
\* ValueError before any lookup and without repointing the container.
C2_NoNamesRaisesValueError ==
    (switchOutcome # "idle" /\ \A i \in 1..3 : switchArgs[i] \in {None, ""}) =>
        /\ switchOutcome = "ValueError"
        /\ switchCalls = <<>>
        /\ container = containerBefore

\* C2's case: a call with no name, one of them given as the empty string.
C2_Witness ==
    /\ switchOutcome = "ValueError"
    /\ switchArgs = <<"", None, None>>

\* C3: switch_item fails in two ways only: the ValueError when no name is
\* supplied, and an AssertionError whenever a lookup it performs returns
\* nothing, the lookups of the current representation and its parents
\* included.
C3_TwoFailureModesOnly ==
    /\ switchOutcome \in {"idle", "returned", "ValueError", "AssertionError"}
    /\ switchOutcome = "ValueError" <=>
           (switchArgs # <<>> /\ \A i \in 1..3 : switchArgs[i] \in {None, ""})
    /\ (\E i \in 1..Len(switchCalls) : ~switchCalls[i].found) =>
           switchOutcome = "AssertionError"

\* C4: with one or two names supplied, every omitted name (None or empty) is
\* replaced by the name of the container's current asset, subset or
\* representation before the chain runs and every supplied name is passed
\* unchanged; with all three supplied the current representation is not
\* looked up.
C4_OmittedNamesFilledFromLineage ==
    LET current == containerBefore.representation
        lineage == <<current[1], current[2], current[4]>>
        Passed(i) == IF switchArgs[i] \in {None, ""} THEN lineage[i] ELSE switchArgs[i]
        lookedUp == \E i \in 1..Len(switchCalls) :
                        switchCalls[i].fn = "get_representation_by_id"
    IN  (switchOutcome \notin {"idle", "ValueError"} /\ Len(current) = 4) =>
            /\ (\A i \in 1..3 : switchArgs[i] \notin {None, ""}) => ~lookedUp
            /\ (lookedUp /\ Len(ChainCalls) >= 1) =>
                   /\ ChainCalls[1].name = Passed(1)
                   /\ Len(ChainCalls) >= 2 => ChainCalls[2].name = Passed(2)
                   /\ Len(ChainCalls) >= 4 => ChainCalls[4].name = Passed(3)

-----------------------------------------------------------------------------
(* update_frame_range, set_asset_framerange, set_asset_resolution          *)

\* The compositions of the host; get_current_comp() returns the current one.
Comps == {"current", "other"}
get_current_comp == "current"

\* An optional number is <<>> (None) or <<n>>.
Starts == {1001}
Ends == {1100}
HandleStarts == {<<>>, <<8>>}
HandleEnds == {<<>>, <<8>>}

\* get_current_project_asset()["data"]
AssetDocs ==
    {[frameStart |-> 1001, frameEnd |-> 1100,
      handleStart |-> <<8>>, handleEnd |-> <<8>>,
      resolutionWidth |-> 1920, resolutionHeight |-> 1080],
     [frameStart |-> 1, frameEnd |-> 10,
      handleStart |-> <<>>, handleEnd |-> <<0>>,
      resolutionWidth |-> 2048, resolutionHeight |-> 858]}

InitialAttrs ==
    [COMPN_GlobalStart |-> 0, COMPN_GlobalEnd |-> 100,
     COMPN_RenderStart |-> 0, COMPN_RenderEnd |-> 100]

InitialPrefs ==
    [Comp_FrameFormat_Width |-> 1280, Comp_FrameFormat_Height |-> 720]

\* 'handle or 0'
OrZero(handle) == IF handle = <<>> \/ handle[1] = 0 THEN 0 ELSE handle[1]

\* A frame range that adds the start handle instead of subtracting it.
FrameRangeAttrsAddsHandle(start, end, set_render_range, handle_start, handle_end) ==
    LET hs == OrZero(handle_start)
        he == OrZero(handle_end)
    IN  IF set_render_range
        THEN [COMPN_GlobalStart |-> start + hs, COMPN_GlobalEnd |-> end + he,
              COMPN_RenderStart |-> start, COMPN_RenderEnd |-> end]
        ELSE [COMPN_GlobalStart |-> start + hs, COMPN_GlobalEnd |-> end + he]

\* Lines 50-63: the attributes update_frame_range writes.
FrameRangeAttrs(start, end, set_render_range, handle_start, handle_end) ==
    LET hs == OrZero(handle_start)
        he == OrZero(handle_end)
    IN  IF set_render_range
        THEN [COMPN_GlobalStart |-> start - hs, COMPN_GlobalEnd |-> end + he,
              COMPN_RenderStart |-> start, COMPN_RenderEnd |-> end]
        ELSE [COMPN_GlobalStart |-> start - hs, COMPN_GlobalEnd |-> end + he]

\* comp.SetAttrs(attrs) / comp.SetPrefs(prefs): the keys given are written.
Written(current, given) ==
    [k \in DOMAIN current \cup DOMAIN given |->
        IF k \in DOMAIN given THEN given[k] ELSE current[k]]

HostCall(call, comp, args) == [call |-> call, comp |-> comp, args |-> args]

\* comp_lock_and_undo_chunk(comp): the comp is locked and an undo chunk
\* opened around the body, and both are undone however the body ends.
comp_lock_and_undo_chunk(comp, body) ==
    <<HostCall("Lock", comp, <<>>), HostCall("StartUndo", comp, <<>>)>>
        \o body
        \o <<HostCall("Unlock", comp, <<>>), HostCall("EndUndo", comp, <<>>)>>

\* The write made before the scope is entered.
WriteBeforeScope(comp, attrs) ==
    <<HostCall("SetAttrs", comp, attrs)>> \o comp_lock_and_undo_chunk(comp, <<>>)

\* Lines 65-66: with comp_lock_and_undo_chunk(comp): comp.SetAttrs(attrs)
WriteInScope(comp, attrs) ==
    comp_lock_and_undo_chunk(comp, <<HostCall("SetAttrs", comp, attrs)>>)

\* The state a comp's lock (or undo chunk) is left in by the host calls.
LeftOpen(events, comp, open, close, before) ==
    LET hits == {i \in 1..Len(events) :
                    events[i].comp = comp /\ events[i].call \in {open, close}}
    IN  IF hits = {} THEN before
        ELSE events[CHOOSE i \in hits : \A j \in hits : j <= i].call = open

\* update_frame_range(start, end, comp, set_render_range, handle_start,
\* handle_end); 'raises' is the host failing the write.
update_frame_range(op, start, end, comp, set_render_range, handle_start, handle_end, raises) ==
    LET target == IF comp = None THEN get_current_comp ELSE comp
        attrs == FrameRangeAttrs(start, end, set_render_range,
                                 handle_start, handle_end)
        events == WriteInScope(target, attrs)
    IN  /\ frameCall' = [op |-> op, start |-> start, end |-> end, comp |-> target,
                         set_render_range |-> set_render_range,
                         handle_start |-> handle_start, handle_end |-> handle_end,
                         before |-> compAttrs[target]]
        /\ hostEvents' = events
        /\ frameRaised' = raises
        /\ compAttrs' = IF raises THEN compAttrs
                        ELSE [compAttrs EXCEPT ![target] = Written(@, attrs)]
        /\ compLocked' = [c \in Comps |->
                             LeftOpen(events, c, "Lock", "Unlock", compLocked[c])]
        /\ compUndoOpen' = [c \in Comps |->
                               LeftOpen(events, c, "StartUndo", "EndUndo",
                                        compUndoOpen[c])]
        /\ UNCHANGED <<assetDoc, compPrefs>>
        /\ UNCHANGED <<pathVars, switchVars, selVars, valVars, createVars>>

InitComp ==
    /\ assetDoc \in AssetDocs
    /\ compAttrs = [c \in Comps |-> InitialAttrs]
    /\ compPrefs = InitialPrefs
    /\ compLocked = [c \in Comps |-> FALSE]
    /\ compUndoOpen = [c \in Comps |-> FALSE]
    /\ frameCall = <<>>
    /\ hostEvents = <<>>
    /\ frameRaised = FALSE
    /\ IdlePath /\ IdleSwitch /\ IdleSelection /\ IdleValidate /\ IdleCreate

UpdateFrameRange ==
    \E start \in Starts, end \in Ends, comp \in {None} \cup Comps,
       set_render_range \in BOOLEAN, handle_start \in HandleStarts,
       handle_end \in HandleEnds, raises \in BOOLEAN :
        update_frame_range("update_frame_range", start, end, comp,
                           set_render_range, handle_start, handle_end, raises)

\* Lines 69-77.
SetAssetFramerange ==
    \E raises \in BOOLEAN :
        update_frame_range("set_asset_framerange", assetDoc.frameStart,
                           assetDoc.frameEnd, None, TRUE,
                           assetDoc.handleStart, assetDoc.handleEnd, raises)

\* Lines 80-92: the preferences are written with no scope around the write.
SetAssetResolution ==
    \E raises \in BOOLEAN :
        LET comp == get_current_comp
            prefs == [Comp_FrameFormat_Width |-> assetDoc.resolutionWidth,
                      Comp_FrameFormat_Height |-> assetDoc.resolutionHeight]
            events == <<HostCall("SetPrefs", comp, prefs)>>
        IN  /\ frameCall' = [op |-> "set_asset_resolution", comp |-> comp]
            /\ hostEvents' = events
            /\ frameRaised' = raises
            /\ compPrefs' = IF raises THEN compPrefs ELSE Written(compPrefs, prefs)
            /\ compLocked' = [c \in Comps |->
                                 LeftOpen(events, c, "Lock", "Unlock", compLocked[c])]
            /\ compUndoOpen' = [c \in Comps |->
                                   LeftOpen(events, c, "StartUndo", "EndUndo",
                                            compUndoOpen[c])]
            /\ UNCHANGED <<assetDoc, compAttrs>>
            /\ UNCHANGED <<pathVars, switchVars, selVars, valVars, createVars>>

NextComp == UpdateFrameRange \/ SetAssetFramerange \/ SetAssetResolution

SpecComp == InitComp /\ [][NextComp]_vars

\* Whether the host call at position i is made with the comp locked and an
\* undo chunk open: Lock and StartUndo came before it and Unlock and EndUndo
\* have not yet.
InScope(events, i) ==
    /\ LeftOpen(SubSeq(events, 1, i - 1), events[i].comp, "Lock", "Unlock", FALSE)
    /\ LeftOpen(SubSeq(events, 1, i - 1), events[i].comp, "StartUndo", "EndUndo", FALSE)

WritesInScope ==
    \A i \in 1..Len(hostEvents) :
        hostEvents[i].call \in {"SetAttrs", "SetPrefs"} => InScope(hostEvents, i)

ScopeReleased ==
    \A c \in DOMAIN compLocked : ~compLocked[c] /\ ~compUndoOpen[c]

\* C5 as stated: every write of update_frame_range and of
\* set_asset_resolution is made inside the lock-and-undo scope, and the scope
\* is released however the call ends.
C5_AllWritesInScope ==
    frameCall # <<>> => WritesInScope /\ ScopeReleased

\* C5 as amended: every write of update_frame_range (and so of
\* set_asset_framerange) is made inside the lock-and-undo scope, which is
\* released whether the write succeeds or raises; set_asset_resolution writes
\* the preferences with no scope around the write.
C5_FrameRangeWritesInScope ==
    frameCall # <<>> =>
        /\ frameCall.op \in {"update_frame_range", "set_asset_framerange"} =>
               /\ \E i \in 1..Len(hostEvents) : hostEvents[i].call = "SetAttrs"
               /\ WritesInScope
        /\ frameCall.op = "set_asset_resolution" =>
               /\ \E i \in 1..Len(hostEvents) : hostEvents[i].call = "SetPrefs"
               /\ \A i \in 1..Len(hostEvents) : ~InScope(hostEvents, i)
        /\ ScopeReleased

\* C5's case: the write of update_frame_range raised inside the scope.
C5_Witness ==
    /\ frameCall # <<>>
    /\ frameCall.op = "update_frame_range"
    /\ frameRaised
    /\ WritesInScope
    /\ ScopeReleased

\* C7: update_frame_range writes global start = start - handle_start and
\* global end = end + handle_end, a None handle counting as 0, and writes
\* render start = start and render end = end exactly when set_render_range
\* is true, leaving the render attributes unwritten otherwise; 1001, 1100
\* with handles 8 and 8 give [993, 1108] and [1001, 1100].
C7_FrameRangeValues ==
    (frameCall # <<>> /\ frameCall.op \in {"update_frame_range", "set_asset_framerange"}) =>
        LET c == frameCall
            hs == IF c.handle_start = <<>> THEN 0 ELSE c.handle_start[1]
            he == IF c.handle_end = <<>> THEN 0 ELSE c.handle_end[1]
            sent == {hostEvents[i].args : i \in {j \in 1..Len(hostEvents) :
                                                    hostEvents[j].call = "SetAttrs"}}
            now == compAttrs[c.comp]
        IN  /\ Cardinality(sent) = 1
            /\ \A attrs \in sent :
                /\ attrs.COMPN_GlobalStart = c.start - hs
                /\ attrs.COMPN_GlobalEnd = c.end + he
                /\ c.set_render_range =>
                       /\ DOMAIN attrs = {"COMPN_GlobalStart", "COMPN_GlobalEnd",
                                          "COMPN_RenderStart", "COMPN_RenderEnd"}
                       /\ attrs.COMPN_RenderStart = c.start
                       /\ attrs.COMPN_RenderEnd = c.end
                /\ ~c.set_render_range =>
                       DOMAIN attrs = {"COMPN_GlobalStart", "COMPN_GlobalEnd"}
            /\ ~frameRaised =>
                /\ now.COMPN_GlobalStart = c.start - hs
                /\ now.COMPN_GlobalEnd = c.end + he
                /\ now.COMPN_RenderStart =
                       IF c.set_render_range THEN c.start ELSE c.before.COMPN_RenderStart
                /\ now.COMPN_RenderEnd =
                       IF c.set_render_range THEN c.end ELSE c.before.COMPN_RenderEnd
                /\ (c.start = 1001 /\ c.end = 1100 /\ c.handle_start = <<8>>
                        /\ c.handle_end = <<8>>) =>
                       /\ now.COMPN_GlobalStart = 993
                       /\ now.COMPN_GlobalEnd = 1108
                       /\ c.set_render_range =>
                              now.COMPN_RenderStart = 1001 /\ now.COMPN_RenderEnd = 1100

\* C7's case: the documented call without the render range, on a
\* composition whose render range was never written.
C7_Witness ==
    /\ frameCall # <<>>
    /\ frameCall.op = "update_frame_range"
    /\ ~frameRaised
    /\ ~frameCall.set_render_range
    /\ frameCall.handle_start = <<8>> /\ frameCall.handle_end = <<8>>
    /\ compAttrs[frameCall.comp] =
           [COMPN_GlobalStart |-> 993, COMPN_GlobalEnd |-> 1108,
            COMPN_RenderStart |-> 0, COMPN_RenderEnd |-> 100]

-----------------------------------------------------------------------------
(* maintained_selection                                                    *)

\* The tools of the composition.
Tools == {"t1", "t2", "t3"}

\* flow.Select(): no arguments clears the selection.
FlowSelectNone(selected) == {}

\* flow.Select(tool, True)
FlowSelect(selected, tool) == selected \cup {tool}

\* A restore that does not clear the selection first.
RestoreWithoutClear(selected, previous_selection) ==
    IF previous_selection # {} THEN selected \cup previous_selection ELSE selected

\* Lines 195-199, the finally block: clear, then select each previous tool.
RestoreSelection(selected, previous_selection) ==
    LET cleared == FlowSelectNone(selected)
    IN  IF previous_selection # {}
        THEN cleared \cup UNION {FlowSelect({}, tool) : tool \in previous_selection}
        ELSE cleared

\* Lines 192-194: try/finally has no except, the body's exception goes on to
\* the caller once the finally block has run.
ScopeOutcome(bodyRaised) == IF bodyRaised THEN "raised" ELSE "returned"

InitSelection ==
    /\ selection \in SUBSET Tools
    /\ selAtEntry = {}
    /\ selInBody = {}
    /\ selBodyRaised = FALSE
    /\ selOutcome = "idle"
    /\ IdlePath /\ IdleSwitch /\ IdleComp /\ IdleValidate /\ IdleCreate

\* with maintained_selection(): <body>, the body leaving bodySelection
\* selected and raising or not.
MaintainedSelection ==
    \E bodySelection \in SUBSET Tools, bodyRaises \in BOOLEAN :
        LET previous_selection == selection
        IN  /\ selAtEntry' = previous_selection
            /\ selInBody' = bodySelection
            /\ selBodyRaised' = bodyRaises
            /\ selection' = RestoreSelection(bodySelection, previous_selection)
            /\ selOutcome' = ScopeOutcome(bodyRaises)
            /\ UNCHANGED <<pathVars, switchVars, compVars, valVars, createVars>>

NextSelection == MaintainedSelection

SpecSelection == InitSelection /\ [][NextSelection]_vars

\* C6: whatever the body selects and whether it returns or raises, after the
\* scope the selected tools are those selected at entry (none if none were),
\* and an exception of the body reaches the caller.
C6_SelectionRestored ==
    selOutcome # "idle" =>
        /\ selection = selAtEntry
        /\ selBodyRaised <=> selOutcome = "raised"

\* C6's case: the body changed a non-empty selection and raised.
C6_Witness ==
    /\ selOutcome = "raised"
    /\ selAtEntry # {}
    /\ selInBody # {}
    /\ selInBody \cap selAtEntry = {}
    /\ selection = selAtEntry

-----------------------------------------------------------------------------
(* ValidateInstanceHasMembers                                              *)

InstanceNames == {"modelMain", "rigMain", "lookMain", "setDress"}
Families == {"model", "rig"}
Members == {"pCube1", "pSphere1"}

\* instance.data["setMembers"]: None or a list of members.
NoMembers == [kind |-> "None", items |-> <<>>]
MemberLists ==
    {[kind |-> "list", items |-> items] :
        items \in {<<>>} \cup {<<m>> : m \in Members}
                         \cup {p \in Members \X Members : p[1] # p[2]}}

\* 'not instance.data["setMembers"]': None and the empty list are falsy.
NotMembers(setMembers) == setMembers.kind = "None" \/ setMembers.items = <<>>

\* get_invalid with the test inverted.
get_invalid_inverted(inst) ==
    IF ~NotMembers(inst.data.setMembers) THEN <<inst.data.name>> ELSE <<>>

\* Lines 13-21.
get_invalid(inst) ==
    IF NotMembers(inst.data.setMembers) THEN <<inst.data.name>> ELSE <<>>

InitValidate ==
    /\ instance \in [data : [name : InstanceNames,
                             setMembers : {NoMembers} \cup MemberLists,
                             family : Families]]
    /\ instanceBefore = instance
    /\ invalid = <<>>
    /\ validateOp = "idle"
    /\ validateRaised = <<>>
    /\ IdlePath /\ IdleSwitch /\ IdleComp /\ IdleSelection /\ IdleCreate

GetInvalid ==
    /\ validateOp' = "get_invalid"
    /\ instanceBefore' = instance
    /\ invalid' = get_invalid(instance)
    /\ validateRaised' = <<>>
    /\ UNCHANGED <<instance, pathVars, switchVars, compVars, selVars, createVars>>

\* Lines 23-27: the RuntimeError carries the list.
Process ==
    /\ validateOp' = "process"
    /\ instanceBefore' = instance
    /\ invalid' = get_invalid(instance)
    /\ validateRaised' = IF invalid' # <<>> THEN <<invalid'>> ELSE <<>>
    /\ UNCHANGED <<instance, pathVars, switchVars, compVars, selVars, createVars>>

NextValidate == GetInvalid \/ Process

SpecValidate == InitValidate /\ [][NextValidate]_vars

\* C9: get_invalid returns the list holding exactly the instance's name when
\* setMembers is empty or falsy and the empty list otherwise; process raises
\* the error carrying that list exactly when it is not empty; neither changes
\* the instance's data.
C9_InvalidIffNoMembers ==
    validateOp # "idle" =>
        LET members == instance.data.setMembers
            empty == members.kind = "None" \/ Len(members.items) = 0
        IN  /\ empty => invalid = <<instance.data.name>>
            /\ ~empty => invalid = <<>>
            /\ validateOp = "get_invalid" => validateRaised = <<>>
            /\ validateOp = "process" =>
                   /\ validateRaised # <<>> <=> invalid # <<>>
                   /\ validateRaised # <<>> => validateRaised[1] = invalid
            /\ instance = instanceBefore

\* C9's case: process raised for an instance whose setMembers is None.
C9_Witness ==
    /\ validateOp = "process"
    /\ instance.data.setMembers = NoMembers
    /\ validateRaised = <<<<instance.data.name>>>>

-----------------------------------------------------------------------------
(* CreateModel.process                                                     *)

\* The most collections the scene is given.
MaxCollections == 2

Objects == {"Cube", "Suzanne"}
Tasks == {None, "modeling", "rigging"}
CreatorAssets == {"hero", "prop"}
CreatorSubsets == {"modelMain"}

\* self.options: <<>> is None, <<d>> a dict d.
CreatorOptions ==
    {<<>>, <<<<>>>>, <<[useSelection |-> TRUE]>>, <<[useSelection |-> FALSE]>>}

\* self.data as the Creator was made: the task may be there from before.
CreatorData ==
    [asset : CreatorAssets, subset : CreatorSubsets]
        \cup [asset : CreatorAssets, subset : CreatorSubsets, task : {"stale"}]

\* pype.blender.plugin.asset_name(asset, subset)
asset_name(asset, subset) == <<asset, "_", subset>>

\* (self.options or {}).get("useSelection")
UseSelection(options) ==
    LET dict == IF options = <<>> THEN <<>> ELSE options[1]
    IN  IF "useSelection" \in DOMAIN dict THEN dict.useSelection ELSE FALSE

\* The data stamped before the task is recorded in it.
StampedBeforeTask(data, task) == data

\* Lines 25-26: self.data['task'] is set, then lib.imprint stamps self.data.
StampedData(data, task) == Written(data, [task |-> task])

InitCreate ==
    /\ collections = <<>>
    /\ sceneChildren = {}
    /\ blenderSelection \in SUBSET Objects
    /\ sessionTask \in Tasks
    /\ creator = <<>>
    /\ createEvents = <<>>
    /\ returned = <<>>
    /\ IdlePath /\ IdleSwitch /\ IdleComp /\ IdleSelection /\ IdleValidate

\* One "objects.link" per selected object.
RECURSIVE LinkEvents(_)
LinkEvents(objs) ==
    IF objs = {} THEN <<>>
    ELSE LET obj == CHOOSE o \in objs : TRUE
         IN  <<[call |-> "objects.link", arg |-> obj]>> \o LinkEvents(objs \ {obj})

\* Lines 17-32, for a Creator made with the given data and options.
CreateModelProcess ==
    \E data \in CreatorData, options \in CreatorOptions :
        LET name == asset_name(data.asset, data.subset)
            index == Len(collections) + 1
            stamped == StampedData(data, sessionTask)
            linked == IF UseSelection(options) THEN blenderSelection ELSE {}
            collection == [name |-> name, imprint |-> stamped, objects |-> linked]
        IN  /\ Len(collections) < MaxCollections
            /\ collections' = Append(collections, collection)
            /\ sceneChildren' = sceneChildren \cup {index}
            /\ creator' = [data |-> Written(data, [task |-> sessionTask]),
                           options |-> options,
                           collectionsBefore |-> collections,
                           childrenBefore |-> sceneChildren]
            /\ createEvents' =
                   <<[call |-> "collections.new", arg |-> name],
                     [call |-> "children.link", arg |-> name],
                     [call |-> "imprint", arg |-> name]>> \o LinkEvents(linked)
            /\ returned' = <<index>>
            /\ UNCHANGED <<blenderSelection, sessionTask>>
            /\ UNCHANGED <<pathVars, switchVars, compVars, selVars, valVars>>

NextCreate == CreateModelProcess

SpecCreate == InitCreate /\ [][NextCreate]_vars

\* C10: process creates exactly one collection named from the asset and the
\* subset, links it under the scene's root collection, records the current
\* task in the creator's data before stamping the data on the collection,
\* then links every selected object into it exactly when useSelection is
\* set (none when options is None or the flag false), and returns the
\* collection it created.
C10_CreateSequence ==
    returned # <<>> =>
        LET i == returned[1]
            new == collections[i]
            flag == /\ creator.options # <<>>
                    /\ "useSelection" \in DOMAIN creator.options[1]
                    /\ creator.options[1].useSelection
        IN  /\ i = Len(collections)
            /\ SubSeq(collections, 1, i - 1) = creator.collectionsBefore
            /\ new.name = <<creator.data.asset, "_", creator.data.subset>>
            /\ sceneChildren = creator.childrenBefore \cup {i}
            /\ creator.data.task = sessionTask
            /\ "task" \in DOMAIN new.imprint
            /\ new.imprint = creator.data
            /\ flag => new.objects = blenderSelection
            /\ ~flag => new.objects = {}
            /\ Len(createEvents) = 3 + Cardinality(new.objects)
            /\ createEvents[1].call = "collections.new"
            /\ createEvents[2].call = "children.link"
            /\ createEvents[3].call = "imprint"
            /\ {createEvents[k].arg : k \in 4..Len(createEvents)} = new.objects

\* C10's case: a Creator carrying a stale task, made with useSelection, by a
\* selection of two objects.
C10_Witness ==
    /\ returned # <<>>
    /\ creator.options = <<[useSelection |-> TRUE]>>
    /\ collections[returned[1]].objects = Objects
    /\ collections[returned[1]].imprint.task = "modeling"
    /\ Len(collections) = 2

=============================================================================
